---- MODULE Spec2Model ----
(***************************************************************************)
(* Model of tools/codegen/selective_build/operator.py: the model metadata  *)
(* and selective build operator records, their YAML (de)serialisation and  *)
(* the three merge functions.                                              *)
(*                                                                         *)
(* Python values are encoded as follows.                                   *)
(*   Optional[T]   None is <<>>, a present value v is <<v>>                *)
(*   str           operator names are TLA+ strings; a model's name and     *)
(*                 version are sequences of one-character strings, so that *)
(*                 "{}@{}".format(name, version) is a real concatenation   *)
(*   list          a sequence                                              *)
(*   dict          a sequence of [key, value] entries with distinct keys,  *)
(*                 in insertion order (Python dicts keep insertion order)  *)
(*   YAML value    [type |-> "bool" | "str" | "list" | "dict", val |-> v]; *)
(*                 a YAML mapping's val is a function from its keys        *)
(*   call outcome  [exc, args, ret]: exc = "None" and ret = <<value>> on   *)
(*                 return, exc = the exception's class on a raise          *)
(***************************************************************************)
EXTENDS Integers, Sequences, FiniteSets, TLC

VARIABLES pc, lhs, rhs, third, ret, ret2, acc, folded, op_name, op_info

vars == <<pc, lhs, rhs, third, ret, ret2, acc, folded, op_name, op_info>>

(***************************************************************************)
(* Bounds                                                                  *)
(***************************************************************************)
\* longest list of models in an input
MaxModels == 2

\* longest list of models in an input of the three-registry merges
MaxAssocModels == 1

\* number of registries folded into the accumulator
MaxFolds == 2

\* placeholder held by a variable that a specification does not use
Unused == <<>>

(***************************************************************************)
(* Python primitives                                                       *)
(***************************************************************************)
None == <<>>

Some(v) == <<v>>

Return(v) == [exc |-> "None", args |-> <<>>, ret |-> <<v>>]

Raise(e, a) == [exc |-> e, args |-> a, ret |-> <<>>]

Raised(r) == r.exc # "None"

Value(r) == r.ret[1]

PyBool(b) == [type |-> "bool", val |-> b]

PyStr(s) == [type |-> "str", val |-> s]

PyList(l) == [type |-> "list", val |-> l]

PyDict(d) == [type |-> "dict", val |-> d]

Range(s) == {s[i] : i \in 1..Len(s)}

SeqsUpTo(S, n) == UNION {[1..k -> S] : k \in 0..n}

\* key in d
DictHas(d, k) == \E i \in 1..Len(d) : d[i].key = k

\* d[k], for a key the dict holds
DictGet(d, k) == d[CHOOSE i \in 1..Len(d) : d[i].key = k].value

\* d[k] = v on a mutant dict that keeps the value already stored under k
DictSetKeepFirst(d, k, v) ==
    IF DictHas(d, k) THEN d ELSE Append(d, [key |-> k, value |-> v])

\* d[k] = v: a present key keeps its position and takes the new value,
\* a new key goes to the end
DictSet(d, k, v) ==
    IF DictHas(d, k)
    THEN [i \in 1..Len(d) |-> IF d[i].key = k THEN [key |-> k, value |-> v] ELSE d[i]]
    ELSE Append(d, [key |-> k, value |-> v])

\* list(d.values())
DictValues(d) == [i \in 1..Len(d) |-> d[i].value]

\* the keys of d, as a set
DictKeys(d) == {d[i].key : i \in 1..Len(d)}

(***************************************************************************)
(* PyTorchModelMetadata                                                    *)
(***************************************************************************)
PyTorchModelMetadata(name, version) == [name |-> name, version |-> version]

\* PyTorchModelMetadata.__str__
str(model) ==
    IF model.version = None
    THEN model.name
    ELSE model.name \o <<"@">> \o model.version[1]

\* mutant: the type of a present version is not asserted
from_yaml_NoVersionCheck(data) ==
    IF data.type # "dict"
    THEN Raise("TypeError", <<>>)
    ELSE IF "name" \notin DOMAIN data.val
    THEN Raise("KeyError", <<"name">>)
    ELSE IF data.val["name"].type # "str"
    THEN Raise("AssertionError", <<>>)
    ELSE Return(PyTorchModelMetadata(
             data.val["name"].val,
             IF "version" \in DOMAIN data.val
             THEN Some(data.val["version"].val)
             ELSE None))

\* PyTorchModelMetadata.from_yaml
from_yaml(data) ==
    IF data.type # "dict"
    THEN Raise("TypeError", <<>>)
    ELSE IF "name" \notin DOMAIN data.val
    THEN Raise("KeyError", <<"name">>)
    ELSE IF data.val["name"].type # "str"
    THEN Raise("AssertionError", <<>>)
    ELSE IF "version" \in DOMAIN data.val /\ data.val["version"].type # "str"
    THEN Raise("AssertionError", <<>>)
    ELSE Return(PyTorchModelMetadata(
             data.val["name"].val,
             IF "version" \in DOMAIN data.val
             THEN Some(data.val["version"].val)
             ELSE None))

\* PyTorchModelMetadata.to_dict
model_to_dict(model) ==
    IF model.version = None
    THEN PyDict([k \in {"name"} |-> PyStr(model.name)])
    ELSE PyDict([k \in {"name", "version"} |->
                    IF k = "name" THEN PyStr(model.name) ELSE PyStr(model.version[1])])

(***************************************************************************)
(* merge_model_lists                                                       *)
(***************************************************************************)
\* lhs or []
OrEmpty(l) == IF l = None THEN <<>> ELSE l[1]

\* for model in ...: mdict[str(model)] = model
RECURSIVE FillMdict(_, _)
FillMdict(models, mdict) ==
    IF models = <<>>
    THEN mdict
    ELSE FillMdict(Tail(models), DictSet(mdict, str(Head(models)), Head(models)))

\* mutant: a lone merged entry is taken for none (len(mdict) > 1)
merge_model_lists_OffByOne(l, r) ==
    LET mdict == FillMdict(OrEmpty(l) \o OrEmpty(r), <<>>)
    IN  IF Len(mdict) > 1 THEN Some(DictValues(mdict)) ELSE None

\* mutant: an empty merge gives an empty list
merge_model_lists_EmptyList(l, r) ==
    Some(DictValues(FillMdict(OrEmpty(l) \o OrEmpty(r), <<>>)))

merge_model_lists(l, r) ==
    LET mdict == FillMdict(OrEmpty(l) \o OrEmpty(r), <<>>)
    IN  IF Len(mdict) > 0 THEN Some(DictValues(mdict)) ELSE None

(***************************************************************************)
(* SelectiveBuildOperator                                                  *)
(***************************************************************************)
SelectiveBuildOperator(name, root, training, overloads, models) ==
    [name |-> name,
     is_root_operator |-> root,
     is_used_for_training |-> training,
     include_all_overloads |-> overloads,
     models |-> models]

from_legacy_operator_name_without_overload(name) ==
    SelectiveBuildOperator(name, TRUE, TRUE, TRUE, None)

\* op_info.get(key, True)
GetOrTrue(info, key) ==
    IF key \in DOMAIN info.val THEN info.val[key] ELSE PyBool(TRUE)

\* list(map(PyTorchModelMetadata.from_yaml, models_list)); the first
\* element that does not parse ends the call
RECURSIVE MapFromYaml(_, _)
MapFromYaml(models_list, done) ==
    IF models_list = <<>>
    THEN Return(done)
    ELSE LET m == from_yaml(Head(models_list))
         IN  IF Raised(m)
             THEN m
             ELSE MapFromYaml(Tail(models_list), Append(done, Value(m)))

\* SelectiveBuildOperator.from_yaml_dict
from_yaml_dict(name, info) ==
    LET is_root_operator == GetOrTrue(info, "is_root_operator")
        is_used_for_training == GetOrTrue(info, "is_used_for_training")
        include_all_overloads == GetOrTrue(info, "include_all_overloads")
    IN  IF is_root_operator.type # "bool"
        THEN Raise("AssertionError", <<>>)
        ELSE IF is_used_for_training.type # "bool"
        THEN Raise("AssertionError", <<>>)
        ELSE IF include_all_overloads.type # "bool"
        THEN Raise("AssertionError", <<>>)
        ELSE IF "models" \notin DOMAIN info.val
        THEN Return(SelectiveBuildOperator(
                 name, is_root_operator.val, is_used_for_training.val,
                 include_all_overloads.val, None))
        ELSE IF info.val["models"].type # "list"
        THEN Raise("AssertionError", <<>>)
        ELSE LET models == MapFromYaml(info.val["models"].val, <<>>)
             IN  IF Raised(models)
                 THEN models
                 ELSE Return(SelectiveBuildOperator(
                          name, is_root_operator.val, is_used_for_training.val,
                          include_all_overloads.val, Some(Value(models))))

FlagKeys == {"is_root_operator", "is_used_for_training", "include_all_overloads"}

\* list(map(lambda m: m.to_dict(), self.models))
MapToDict(models) == [i \in 1..Len(models) |-> model_to_dict(models[i])]

\* mutant: models is written also when it is None, as an empty list
to_dict_AlwaysModels(op) ==
    PyDict([k \in FlagKeys \cup {"models"} |->
               IF k = "models" THEN PyList(MapToDict(OrEmpty(op.models)))
               ELSE PyBool(op[k])])

\* SelectiveBuildOperator.to_dict
to_dict(op) ==
    IF op.models # None
    THEN PyDict([k \in FlagKeys \cup {"models"} |->
                    IF k = "models" THEN PyList(MapToDict(op.models[1]))
                    ELSE PyBool(op[k])])
    ELSE PyDict([k \in FlagKeys |-> PyBool(op[k])])

(***************************************************************************)
(* combine_operators                                                       *)
(***************************************************************************)
\* mutant: the name check is missing and lhs.name is kept
combine_operators_KeepLhsName(l, r) ==
    Return(SelectiveBuildOperator(
        l.name,
        l.is_root_operator \/ r.is_root_operator,
        l.is_used_for_training \/ r.is_used_for_training,
        l.include_all_overloads \/ r.include_all_overloads,
        merge_model_lists(l.models, r.models)))

\* mutant: is_used_for_training is taken from lhs alone
combine_operators_LhsTraining(l, r) ==
    IF l.name # r.name
    THEN Raise("Exception", <<l.name, r.name>>)
    ELSE Return(SelectiveBuildOperator(
             l.name,
             l.is_root_operator \/ r.is_root_operator,
             l.is_used_for_training,
             l.include_all_overloads \/ r.include_all_overloads,
             merge_model_lists(l.models, r.models)))

\* mutant: include_all_overloads is and-ed
combine_operators_AndOverloads(l, r) ==
    IF l.name # r.name
    THEN Raise("Exception", <<l.name, r.name>>)
    ELSE Return(SelectiveBuildOperator(
             l.name,
             l.is_root_operator \/ r.is_root_operator,
             l.is_used_for_training \/ r.is_used_for_training,
             l.include_all_overloads /\ r.include_all_overloads,
             merge_model_lists(l.models, r.models)))

combine_operators(l, r) ==
    IF l.name # r.name
    THEN Raise("Exception", <<l.name, r.name>>)
    ELSE Return(SelectiveBuildOperator(
             l.name,
             l.is_root_operator \/ r.is_root_operator,
             l.is_used_for_training \/ r.is_used_for_training,
             l.include_all_overloads \/ r.include_all_overloads,
             merge_model_lists(l.models, r.models)))

(***************************************************************************)
(* merge_operator_dicts                                                    *)
(***************************************************************************)
\* for (op_name, op) in items: ...; a raise of combine_operators ends the loop
RECURSIVE MergeLoop(_, _)
MergeLoop(items, operators) ==
    IF items = <<>>
    THEN Return(operators)
    ELSE LET opname == Head(items).key
             op == Head(items).value
         IN  IF DictHas(operators, opname)
             THEN LET new_op == combine_operators(DictGet(operators, opname), op)
                  IN  IF Raised(new_op)
                      THEN new_op
                      ELSE MergeLoop(Tail(items),
                                     DictSet(operators, opname, Value(new_op)))
             ELSE MergeLoop(Tail(items), DictSet(operators, opname, op))

\* the loop of the mutants below
RECURSIVE MergeLoopOverwrite(_, _)
MergeLoopOverwrite(items, operators) ==
    IF items = <<>>
    THEN Return(operators)
    ELSE MergeLoopOverwrite(Tail(items),
                            DictSet(operators, Head(items).key, Head(items).value))

RECURSIVE MergeLoopCombineAll(_, _)
MergeLoopCombineAll(items, operators) ==
    IF items = <<>>
    THEN Return(operators)
    ELSE LET opname == Head(items).key
             op == Head(items).value
             old == IF DictHas(operators, opname) THEN DictGet(operators, opname) ELSE op
             new_op == combine_operators(old, op)
         IN  IF Raised(new_op)
             THEN new_op
             ELSE MergeLoopCombineAll(Tail(items),
                                      DictSet(operators, opname, Value(new_op)))

\* mutant: a name already present is overwritten, not combined
merge_operator_dicts_Overwrite(l, r) == MergeLoopOverwrite(l \o r, <<>>)

\* mutant: every record goes through combine_operators, also the first
\* one of its name
merge_operator_dicts_CombineAll(l, r) == MergeLoopCombineAll(l \o r, <<>>)

merge_operator_dicts(l, r) == MergeLoop(l \o r, <<>>)

(***************************************************************************)
(* Inputs                                                                  *)
(***************************************************************************)
\* "a@b" without a version and "a" with version "b" print the same
ModelNames == {<<"a">>, <<"a", "@", "b">>}

ModelVersions == {None, Some(<<"b">>)}

AllModels == {PyTorchModelMetadata(n, v) : n \in ModelNames, v \in ModelVersions}

ModelLists == {None} \cup {Some(l) : l \in SeqsUpTo(AllModels, MaxModels)}

AssocModelLists == {None} \cup {Some(l) : l \in SeqsUpTo(AllModels, MaxAssocModels)}

OpNames == {"x", "y"}

Flags == BOOLEAN \X BOOLEAN \X BOOLEAN

\* the records of one name: every combination of flags without models, and
\* every list of models under the given flags
OpsOf(name, lists, flags) ==
    {SelectiveBuildOperator(name, f[1], f[2], f[3], None) : f \in Flags}
    \cup {SelectiveBuildOperator(name, f[1], f[2], f[3], m) : f \in flags, m \in lists}

AllFalse == <<FALSE, FALSE, FALSE>>

AllTrue == <<TRUE, TRUE, TRUE>>

\* the registries {}, {"x": ..}, {"y": ..}, {"x": .., "y": ..} and
\* {"y": .., "x": ..} with the given records under "x" and under "y"
DictsOf(xs, ys) ==
    {<<>>}
    \cup {<<[key |-> "x", value |-> o]>> : o \in xs}
    \cup {<<[key |-> "y", value |-> o]>> : o \in ys}
    \cup {<<[key |-> "x", value |-> o], [key |-> "y", value |-> q]>> : o \in xs, q \in ys}
    \cup {<<[key |-> "y", value |-> q], [key |-> "x", value |-> o]>> : o \in xs, q \in ys}

\* every entry's record carries its key as its name
Keyed(d) == \A i \in 1..Len(d) : d[i].value.name = d[i].key

(***************************************************************************)
(* Specification SpecLists: one call of merge_model_lists                  *)
(***************************************************************************)
InitLists ==
    /\ pc = "call"
    /\ lhs \in ModelLists
    /\ rhs \in ModelLists
    /\ ret = Unused
    /\ third = Unused /\ ret2 = Unused /\ acc = Unused
    /\ folded = Unused /\ op_name = Unused /\ op_info = Unused

CallMergeModelLists ==
    /\ pc = "call"
    /\ ret' = Return(merge_model_lists(lhs, rhs))
    /\ pc' = "done"
    /\ UNCHANGED <<lhs, rhs, third, ret2, acc, folded, op_name, op_info>>

NextLists == CallMergeModelLists

SpecLists == InitLists /\ [][NextLists]_vars

\* the scan of merge_model_lists: lhs followed by rhs
Scan == OrEmpty(lhs) \o OrEmpty(rhs)

\* first and last position in the scan of an entry printing as s
FirstAt(s) == CHOOSE i \in 1..Len(Scan) :
                 str(Scan[i]) = s /\ \A j \in 1..(i - 1) : str(Scan[j]) # s

LastAt(s) == CHOOSE i \in 1..Len(Scan) :
                 str(Scan[i]) = s /\ \A j \in (i + 1)..Len(Scan) : str(Scan[j]) # s

\* the scan holds two unequal entries that print the same
ScanCollides == \E i, j \in 1..Len(Scan) :
                    i < j /\ str(Scan[i]) = str(Scan[j]) /\ Scan[i] # Scan[j]

\* C2 (as stated): of the entries of the scan lhs, rhs that share a canonical
\* string, the merged list holds the one encountered first.
C2_FirstKept ==
    (pc = "done" /\ Value(ret) # None) =>
        \A k \in 1..Len(Value(ret)[1]) :
            Value(ret)[1][k] = Scan[FirstAt(str(Value(ret)[1][k]))]

\* C2 (amended): of the entries of the scan lhs, rhs that share a canonical
\* string, the merged list holds the one encountered last.
C2_LastKept ==
    (pc = "done" /\ Value(ret) # None) =>
        \A k \in 1..Len(Value(ret)[1]) :
            Value(ret)[1][k] = Scan[LastAt(str(Value(ret)[1][k]))]

C2_Witness ==
    /\ pc = "done"
    /\ ScanCollides
    /\ lhs # None /\ rhs # None
    /\ \E i \in 1..Len(lhs[1]), j \in 1..Len(rhs[1]) :
          /\ str(lhs[1][i]) = str(rhs[1][j])
          /\ lhs[1][i] # rhs[1][j]
          /\ rhs[1][j] \in Range(Value(ret)[1])
          /\ lhs[1][i] \notin Range(Value(ret)[1])

\* C6: merge_model_lists returns None exactly when lhs and rhs hold no
\* entry at all; otherwise it returns a list with one entry per canonical
\* string of the scan, in the order of each string's first occurrence.
C6_MergedList ==
    pc = "done" =>
        /\ ~Raised(ret)
        /\ (Value(ret) = None) <=> (Scan = <<>>)
        /\ Value(ret) # None =>
              LET r == Value(ret)[1]
              IN  /\ Len(r) > 0
                  /\ {str(r[k]) : k \in 1..Len(r)} = {str(Scan[i]) : i \in 1..Len(Scan)}
                  /\ \A k, m \in 1..Len(r) : k # m => str(r[k]) # str(r[m])
                  /\ \A k, m \in 1..Len(r) :
                        k < m => FirstAt(str(r[k])) < FirstAt(str(r[m]))

C6_Witness ==
    /\ pc = "done"
    /\ lhs # None /\ rhs # None
    /\ Value(ret) # None
    /\ Len(Value(ret)[1]) >= 2
    /\ Len(Value(ret)[1]) < Len(Scan)

C6_WitnessAbsent ==
    /\ pc = "done"
    /\ lhs = None /\ rhs = Some(<<>>)
    /\ Value(ret) = None

(***************************************************************************)
(* Specification SpecCombine: one call of combine_operators                *)
(***************************************************************************)
CombineOps == OpsOf("x", ModelLists, {AllFalse, AllTrue})
              \cup OpsOf("y", ModelLists, {AllFalse, AllTrue})

InitCombine ==
    /\ pc = "call"
    /\ lhs \in CombineOps
    /\ rhs \in CombineOps
    /\ ret = Unused
    /\ third = Unused /\ ret2 = Unused /\ acc = Unused
    /\ folded = Unused /\ op_name = Unused /\ op_info = Unused

CallCombineOperators ==
    /\ pc = "call"
    /\ ret' = combine_operators(lhs, rhs)
    /\ pc' = "done"
    /\ UNCHANGED <<lhs, rhs, third, ret2, acc, folded, op_name, op_info>>

NextCombine == CallCombineOperators

SpecCombine == InitCombine /\ [][NextCombine]_vars

\* C4: combine_operators raises exactly when the two names differ, returns
\* no record when it raises, and otherwise returns a record with the common
\* name.
C4_RaisesIffNamesDiffer ==
    pc = "done" =>
        /\ Raised(ret) <=> (lhs.name # rhs.name)
        /\ Raised(ret) => (ret.exc = "Exception" /\ ret.ret = <<>>)
        /\ ~Raised(ret) => (Value(ret).name = lhs.name /\ Value(ret).name = rhs.name)

C4_Witness ==
    /\ pc = "done"
    /\ lhs.name = "x" /\ rhs.name = "y"
    /\ Raised(ret)
    /\ ret.args = <<"x", "y">>

(***************************************************************************)
(* Specification SpecDicts: merge_operator_dicts(lhs, rhs) and             *)
(* merge_operator_dicts(rhs, lhs)                                          *)
(***************************************************************************)
\* registries keyed by name, and registries holding a record named "y"
\* under the key "x"
InputDicts ==
    DictsOf(OpsOf("x", ModelLists, {AllFalse, AllTrue})
                \cup {from_legacy_operator_name_without_overload("y")},
            {from_legacy_operator_name_without_overload("y")})

InitDicts ==
    /\ pc = "call"
    /\ lhs \in InputDicts
    /\ rhs \in InputDicts
    /\ ret = Unused /\ ret2 = Unused
    /\ third = Unused /\ acc = Unused
    /\ folded = Unused /\ op_name = Unused /\ op_info = Unused

CallMergeOperatorDicts ==
    /\ pc = "call"
    /\ ret' = merge_operator_dicts(lhs, rhs)
    /\ ret2' = merge_operator_dicts(rhs, lhs)
    /\ pc' = "done"
    /\ UNCHANGED <<lhs, rhs, third, acc, folded, op_name, op_info>>

NextDicts == CallMergeOperatorDicts

SpecDicts == InitDicts /\ [][NextDicts]_vars

\* the entries of an optional list of models, as a set
ModelSet(m) == Range(OrEmpty(m))

\* the canonical strings of an optional list of models, as a set
StrSet(m) == {str(x) : x \in ModelSet(m)}

SameFlags(o, q) ==
    /\ o.is_root_operator = q.is_root_operator
    /\ o.is_used_for_training = q.is_used_for_training
    /\ o.include_all_overloads = q.include_all_overloads

\* two unequal entries of the two lists print the same
Collide(m1, m2) ==
    \E a \in ModelSet(m1) \cup ModelSet(m2), b \in ModelSet(m1) \cup ModelSet(m2) :
        a # b /\ str(a) = str(b)

\* C1 (as stated): for registries keyed by name, merging in either order
\* gives the same keys and, per key, the same name, flags and set of models.
C1_SameEntries ==
    (pc = "done" /\ Keyed(lhs) /\ Keyed(rhs)) =>
        /\ ~Raised(ret) /\ ~Raised(ret2)
        /\ DictKeys(Value(ret)) = DictKeys(Value(ret2))
        /\ \A k \in DictKeys(Value(ret)) :
              LET o == DictGet(Value(ret), k)
                  q == DictGet(Value(ret2), k)
              IN  /\ o.name = q.name
                  /\ SameFlags(o, q)
                  /\ ModelSet(o.models) = ModelSet(q.models)

\* C1 (amended): for registries keyed by name, merging in either order gives
\* the same keys and, per key, the same name, flags and set of canonical
\* strings of the models; the sets of models are the same too unless two
\* unequal models of the two inputs' records share a canonical string.
C1_SameCanonicalStrings ==
    (pc = "done" /\ Keyed(lhs) /\ Keyed(rhs)) =>
        /\ ~Raised(ret) /\ ~Raised(ret2)
        /\ DictKeys(Value(ret)) = DictKeys(Value(ret2))
        /\ \A k \in DictKeys(Value(ret)) :
              LET o == DictGet(Value(ret), k)
                  q == DictGet(Value(ret2), k)
              IN  /\ o.name = q.name
                  /\ SameFlags(o, q)
                  /\ StrSet(o.models) = StrSet(q.models)
                  /\ (DictHas(lhs, k) /\ DictHas(rhs, k)
                        /\ ~Collide(DictGet(lhs, k).models, DictGet(rhs, k).models))
                       => ModelSet(o.models) = ModelSet(q.models)

C1_Witness ==
    /\ pc = "done"
    /\ Keyed(lhs) /\ Keyed(rhs)
    /\ DictHas(lhs, "x") /\ DictHas(rhs, "x")
    /\ DictKeys(lhs) # DictKeys(rhs)
    /\ Collide(DictGet(lhs, "x").models, DictGet(rhs, "x").models)
    /\ DictGet(lhs, "x").is_root_operator # DictGet(rhs, "x").is_root_operator
    /\ ModelSet(DictGet(Value(ret), "x").models) # ModelSet(DictGet(Value(ret2), "x").models)

\* C8: merge_operator_dicts(R, {}) has the keys of R and, under each key,
\* the very record of R, its models neither deduplicated nor turned to None.
C8_EmptyIsIdentity ==
    (pc = "done" /\ rhs = <<>>) =>
        /\ ~Raised(ret)
        /\ DictKeys(Value(ret)) = DictKeys(lhs)
        /\ Len(Value(ret)) = Len(lhs)
        /\ \A k \in DictKeys(lhs) : DictGet(Value(ret), k) = DictGet(lhs, k)

C8_Witness ==
    /\ pc = "done"
    /\ rhs = <<>>
    /\ DictHas(lhs, "x") /\ DictHas(lhs, "y")
    /\ \E m \in AllModels : DictGet(lhs, "x").models = Some(<<m, m>>)
    /\ Value(ret) = lhs

C8_WitnessEmptyList ==
    /\ pc = "done"
    /\ rhs = <<>>
    /\ DictHas(lhs, "x")
    /\ DictGet(lhs, "x").models = Some(<<>>)
    /\ DictGet(Value(ret), "x").models = Some(<<>>)

\* the two registries hold records of different names under one key
NamesClash == \E k \in DictKeys(lhs) \cap DictKeys(rhs) :
                  DictGet(lhs, k).name # DictGet(rhs, k).name

\* C10: merging two registries keyed by name does not raise and gives a
\* registry keyed by name over the union of the keys; merging registries
\* that hold records of different names under one key raises the
\* name-mismatch exception and returns nothing.
C10_KeyedByName ==
    pc = "done" =>
        /\ (Keyed(lhs) /\ Keyed(rhs)) =>
              /\ ~Raised(ret)
              /\ DictKeys(Value(ret)) = DictKeys(lhs) \cup DictKeys(rhs)
              /\ Keyed(Value(ret))
        /\ NamesClash =>
              /\ ret.exc = "Exception"
              /\ ret.ret = <<>>
              /\ \E k \in DictKeys(lhs) \cap DictKeys(rhs) :
                    ret.args = <<DictGet(lhs, k).name, DictGet(rhs, k).name>>

C10_Witness ==
    /\ pc = "done"
    /\ Keyed(lhs) /\ Keyed(rhs)
    /\ DictKeys(lhs) = {"x"} /\ DictKeys(rhs) = {"x", "y"}
    /\ DictKeys(Value(ret)) = {"x", "y"}

C10_WitnessClash ==
    /\ pc = "done"
    /\ NamesClash
    /\ Raised(ret)

(***************************************************************************)
(* Specification SpecAssoc: three registries merged left first and right   *)
(* first                                                                   *)
(***************************************************************************)
\* registries keyed by name
AssocDicts ==
    LET xs == OpsOf("x", AssocModelLists, {AllFalse})
        y == from_legacy_operator_name_without_overload("y")
    IN  {<<>>, <<[key |-> "y", value |-> y]>>}
        \cup {<<[key |-> "x", value |-> o]>> : o \in xs}
        \cup {<<[key |-> "x", value |-> o], [key |-> "y", value |-> y]>> : o \in xs}

InitAssoc ==
    /\ pc = "call"
    /\ lhs \in AssocDicts
    /\ rhs \in AssocDicts
    /\ third \in AssocDicts
    /\ ret = Unused /\ ret2 = Unused
    /\ acc = Unused /\ folded = Unused /\ op_name = Unused /\ op_info = Unused

\* merge_operator_dicts(lhs, rhs) and merge_operator_dicts(rhs, third)
MergeInner ==
    /\ pc = "call"
    /\ ret' = merge_operator_dicts(lhs, rhs)
    /\ ret2' = merge_operator_dicts(rhs, third)
    /\ pc' = "inner"
    /\ UNCHANGED <<lhs, rhs, third, acc, folded, op_name, op_info>>

\* merge_operator_dicts(<lhs, rhs>, third) and
\* merge_operator_dicts(lhs, <rhs, third>)
MergeOuter ==
    /\ pc = "inner"
    /\ ~Raised(ret) /\ ~Raised(ret2)
    /\ ret' = merge_operator_dicts(Value(ret), third)
    /\ ret2' = merge_operator_dicts(lhs, Value(ret2))
    /\ pc' = "done"
    /\ UNCHANGED <<lhs, rhs, third, acc, folded, op_name, op_info>>

NextAssoc == MergeInner \/ MergeOuter

SpecAssoc == InitAssoc /\ [][NextAssoc]_vars

\* how often the entry x occurs in the list l
Count(l, x) == Cardinality({i \in 1..Len(l) : l[i] = x})

\* both absent, or two lists holding the same entries
SameModels(m1, m2) ==
    /\ (m1 = None) <=> (m2 = None)
    /\ \A x \in ModelSet(m1) \cup ModelSet(m2) :
          Count(OrEmpty(m1), x) = Count(OrEmpty(m2), x)

\* C7: for registries keyed by name, merging (lhs, rhs) with third and lhs
\* with (rhs, third) gives the same keys and, per key, the same flags and
\* the same models: both None, or lists of the same entries.
C7_Associative ==
    pc = "done" =>
        /\ ~Raised(ret) /\ ~Raised(ret2)
        /\ DictKeys(Value(ret)) = DictKeys(Value(ret2))
        /\ \A k \in DictKeys(Value(ret)) :
              LET o == DictGet(Value(ret), k)
                  q == DictGet(Value(ret2), k)
              IN  /\ o.name = q.name
                  /\ SameFlags(o, q)
                  /\ SameModels(o.models, q.models)

C7_Witness ==
    /\ pc = "done"
    /\ DictHas(lhs, "x") /\ DictHas(rhs, "x") /\ DictHas(third, "x")
    /\ DictHas(rhs, "y") /\ ~DictHas(lhs, "y")
    /\ DictGet(rhs, "x").is_used_for_training
    /\ ~DictGet(third, "x").is_used_for_training
    /\ Collide(DictGet(lhs, "x").models, DictGet(third, "x").models)
    /\ DictGet(Value(ret), "x").models = DictGet(third, "x").models
    /\ DictKeys(Value(ret)) = {"x", "y"}

(***************************************************************************)
(* Specification SpecFold: a caller folds registries into an accumulator,  *)
(* acc = merge_operator_dicts(acc, R)                                      *)
(***************************************************************************)
\* a model with a version
SomeModel == PyTorchModelMetadata(<<"a">>, Some(<<"b">>))

\* registries keyed by name
FoldDicts ==
    DictsOf({SelectiveBuildOperator("x", f[1], f[2], f[3], m) :
                 f \in Flags, m \in {None, Some(<<SomeModel>>)}},
            {from_legacy_operator_name_without_overload("y"),
             SelectiveBuildOperator("y", FALSE, FALSE, FALSE, None)})

\* folded: the records of the registries folded so far
InitFold ==
    /\ pc = 0
    /\ acc = <<>>
    /\ folded = {}
    /\ lhs = Unused /\ rhs = Unused /\ third = Unused
    /\ ret = Unused /\ ret2 = Unused /\ op_name = Unused /\ op_info = Unused

Fold ==
    /\ pc < MaxFolds
    /\ \E R \in FoldDicts :
          LET merged == merge_operator_dicts(acc, R)
          IN  /\ ~Raised(merged)
              /\ acc' = Value(merged)
              /\ folded' = folded \cup Range(DictValues(R))
    /\ pc' = pc + 1
    /\ UNCHANGED <<lhs, rhs, third, ret, ret2, op_name, op_info>>

NextFold == Fold

SpecFold == InitFold /\ [][NextFold]_vars

\* each flag of each record of acc is the or of that flag over the folded
\* records of the same name
FlagsAreOr ==
    \A k \in DictKeys(acc) :
        LET o == DictGet(acc, k)
            src == {r \in folded : r.name = k}
        IN  /\ o.is_root_operator <=> \E r \in src : r.is_root_operator
            /\ o.is_used_for_training <=> \E r \in src : r.is_used_for_training
            /\ o.include_all_overloads <=> \E r \in src : r.include_all_overloads

\* a flag that is set in acc is set after the step
FlagsStay ==
    \A k \in DictKeys(acc) :
        /\ k \in DictKeys(acc')
        /\ DictGet(acc, k).is_root_operator => DictGet(acc', k).is_root_operator
        /\ DictGet(acc, k).is_used_for_training => DictGet(acc', k).is_used_for_training
        /\ DictGet(acc, k).include_all_overloads => DictGet(acc', k).include_all_overloads

\* C5: after every fold each flag of each record of the accumulator is true
\* exactly when some folded record of that name has it true, and a flag that
\* is true in the accumulator stays true in every later fold.
C5_FlagsNeverRetracted == [](FlagsAreOr) /\ [][FlagsStay]_vars

C5_Witness ==
    /\ pc = 2
    /\ DictHas(acc, "x") /\ DictHas(acc, "y")
    /\ DictGet(acc, "x").is_root_operator
    /\ ~DictGet(acc, "x").is_used_for_training
    /\ \E r \in folded : r.name = "x" /\ ~r.is_root_operator
    /\ \E r \in folded : r.name = "x" /\ r.is_root_operator
    /\ Cardinality({r \in folded : r.name = "x"}) = 2

(***************************************************************************)
(* Specification SpecYaml: from_yaml_dict(op_name, op_info), then to_dict  *)
(* of the operator it returned                                             *)
(***************************************************************************)
\* the values of a flag in a document: booleans and a string
FlagValues == {PyBool(TRUE), PyBool(FALSE), PyStr(<<"a">>)}

\* the elements of models in a document: two well-formed ones, one without
\* a name, one whose name is no string, one whose version is no string and
\* one that is no mapping
ModelDocs ==
    {PyDict([k \in {"name"} |-> PyStr(<<"a">>)]),
     PyDict([k \in {"name", "version"} |-> IF k = "name" THEN PyStr(<<"a">>) ELSE PyStr(<<"b">>)]),
     PyDict(<<>>),
     PyDict([k \in {"name"} |-> PyBool(TRUE)]),
     PyDict([k \in {"name", "version"} |-> IF k = "name" THEN PyStr(<<"a">>) ELSE PyBool(TRUE)]),
     PyStr(<<"a">>)}

\* the values of models in a document: lists and a string
ModelsValues == {PyStr(<<"a">>)} \cup {PyList(l) : l \in SeqsUpTo(ModelDocs, MaxModels)}

OpInfos ==
    UNION {{PyDict(f) : f \in [K -> FlagValues]} : K \in SUBSET FlagKeys}
    \cup UNION {{PyDict([k \in K \cup {"models"} |-> IF k = "models" THEN m ELSE f[k]]) :
                     f \in [K -> FlagValues], m \in ModelsValues} : K \in SUBSET FlagKeys}

InitYaml ==
    /\ pc = "call"
    /\ op_name \in OpNames
    /\ op_info \in OpInfos
    /\ ret = Unused /\ ret2 = Unused
    /\ lhs = Unused /\ rhs = Unused /\ third = Unused
    /\ acc = Unused /\ folded = Unused

CallFromYamlDict ==
    /\ pc = "call"
    /\ ret' = from_yaml_dict(op_name, op_info)
    /\ pc' = "parsed"
    /\ UNCHANGED <<lhs, rhs, third, ret2, acc, folded, op_name, op_info>>

CallToDict ==
    /\ pc = "parsed"
    /\ ~Raised(ret)
    /\ ret2' = Return(to_dict(Value(ret)))
    /\ pc' = "done"
    /\ UNCHANGED <<lhs, rhs, third, ret, acc, folded, op_name, op_info>>

NextYaml == CallFromYamlDict \/ CallToDict

SpecYaml == InitYaml /\ [][NextYaml]_vars

\* C3 (as stated): to_dict of the operator read from an accepted document
\* is that document.
C3_RoundTrip ==
    pc = "done" => Value(ret2) = op_info

\* C3 (amended): to_dict of the operator read from an accepted document is
\* that document with every absent flag added as true: it has the three
\* flags and the keys of the document, models exactly when the document has
\* it, every value of the document unchanged, and it is the document itself
\* when the document has all three flags.
C3_RoundTripWithDefaults ==
    pc = "done" =>
        LET d == op_info.val
            out == Value(ret2).val
        IN  /\ Value(ret2).type = "dict"
            /\ DOMAIN out = DOMAIN d \cup FlagKeys
            /\ \A k \in DOMAIN d : out[k] = d[k]
            /\ \A k \in FlagKeys \ DOMAIN d : out[k] = PyBool(TRUE)
            /\ FlagKeys \subseteq DOMAIN d => Value(ret2) = op_info

C3_Witness ==
    /\ pc = "done"
    /\ DOMAIN op_info.val = {"is_used_for_training", "models"}
    /\ op_info.val["is_used_for_training"] = PyBool(FALSE)
    /\ Len(op_info.val["models"].val) = 2
    /\ op_info.val["models"].val[1] # op_info.val["models"].val[2]
    /\ Value(ret2) # op_info

C3_WitnessNoModels ==
    /\ pc = "done"
    /\ DOMAIN op_info.val = FlagKeys
    /\ Value(ret2) = op_info

\* a models element that from_yaml does not take: no mapping, no string
\* under name, or a version that is no string
BadModelDoc(x) ==
    \/ x.type # "dict"
    \/ "name" \notin DOMAIN x.val
    \/ x.val["name"].type # "str"
    \/ ("version" \in DOMAIN x.val /\ x.val["version"].type # "str")

\* a document that from_yaml_dict does not take
BadOpInfo(info) ==
    \/ \E k \in FlagKeys \cap DOMAIN info.val : info.val[k].type # "bool"
    \/ /\ "models" \in DOMAIN info.val
       /\ \/ info.val["models"].type # "list"
          \/ \E i \in 1..Len(info.val["models"].val) :
                BadModelDoc(info.val["models"].val[i])

\* C9: from_yaml_dict raises exactly when a present flag is no boolean,
\* a present models is no list, or an element of models has no string name
\* or a version that is no string; otherwise it returns the operator with
\* the given name, each flag as given or true when absent, and models None
\* when the document has no models.
C9_RaisesOnWrongType ==
    pc \in {"parsed", "done"} =>
        /\ Raised(ret) <=> BadOpInfo(op_info)
        /\ Raised(ret) => ret.ret = <<>>
        /\ ~Raised(ret) =>
              /\ Value(ret).name = op_name
              /\ \A k \in FlagKeys :
                    Value(ret)[k] = IF k \in DOMAIN op_info.val
                                    THEN op_info.val[k].val
                                    ELSE TRUE
              /\ (Value(ret).models = None) <=> ("models" \notin DOMAIN op_info.val)
              /\ "models" \in DOMAIN op_info.val =>
                    Len(Value(ret).models[1]) = Len(op_info.val["models"].val)

C9_Witness ==
    /\ pc = "parsed"
    /\ DOMAIN op_info.val = {"is_root_operator"}
    /\ op_info.val["is_root_operator"] = PyBool(FALSE)
    /\ ~Raised(ret)
    /\ Value(ret) = SelectiveBuildOperator(op_name, FALSE, TRUE, TRUE, None)

C9_WitnessRaise ==
    /\ pc = "parsed"
    /\ "models" \in DOMAIN op_info.val
    /\ op_info.val["models"].type = "list"
    /\ Len(op_info.val["models"].val) = 2
    /\ ~BadModelDoc(op_info.val["models"].val[1])
    /\ BadModelDoc(op_info.val["models"].val[2])
    /\ \A k \in FlagKeys \cap DOMAIN op_info.val : op_info.val[k].type = "bool"
    /\ Raised(ret)

====
